---- MODULE Spec2Model ----
(***************************************************************************)
(* Model of Admin/Client/src/formComponents/jsonFormComponent.tsx: the     *)
(* JsonFormComponent function component.  One call of the component is a   *)
(* render pass; the closures it hands to the widgets (insertObject,        *)
(* deleteObject, updateJsonObject) stay callable until the next pass.      *)
(*                                                                         *)
(* JavaScript values are pairs <<type, repr>> of strings; JSON tokens are  *)
(* pairs <<kind, repr>>.  A JavaScript object is the sequence of its       *)
(* <<key, value>> properties in insertion order.  Texts typed by the user  *)
(* and the options string are sequences of one-character strings.          *)
(***************************************************************************)
EXTENDS Integers, Sequences, FiniteSets, TLC

\* Bounds of the model.
MaxRecords == 2

VARIABLES
    value,          \* props.value: the persisted value the host supplies
    inputs,         \* props.inputs: the schema, or null
    errorMessage,   \* props.errorMessage is truthy
    hasOnChange,    \* props.onChange is defined
    jsonObjects,    \* the array of the live render pass (line 41)
    phase,          \* outcome of the last render pass
    containers,     \* the record containers the last pass returned
    insertBound,    \* the last pass returned the New button
    emits,          \* number of onChange calls made by the last step
    emitted,        \* argument of the last onChange call, if any
    lastOp          \* the last step taken and its arguments

vars == <<value, inputs, errorMessage, hasOnChange, jsonObjects, phase,
          containers, insertBound, emits, emitted, lastOp>>

(***************************************************************************)
(* JavaScript values                                                       *)
(***************************************************************************)
Undefined == <<"undefined", "">>
Null == <<"null", "">>
NaN == <<"number", "NaN">>
JsTrue == <<"boolean", "true">>
JsFalse == <<"boolean", "false">>
JsNumber(n) == <<"number", ToString(n)>>
JsString(s) == <<"string", s>>

\* ToBoolean, as used by `!propertyValue` and `props.value ? ... : ...`.
Truthy(v) ==
    CASE v[1] = "undefined" -> FALSE
      [] v[1] = "null" -> FALSE
      [] v[1] = "boolean" -> v[2] = "true"
      [] v[1] = "number" -> v[2] \notin {"0", "NaN"}
      [] v[1] = "string" -> v[2] # ""
      [] OTHER -> TRUE

(***************************************************************************)
(* JavaScript objects: property read and write                             *)
(***************************************************************************)
HasKey(obj, k) == \E i \in 1..Len(obj) : obj[i][1] = k

\* obj[k]: undefined when the object has no such property.
GetProp(obj, k) ==
    IF HasKey(obj, k)
    THEN obj[CHOOSE i \in 1..Len(obj) : obj[i][1] = k][2]
    ELSE Undefined

\* obj[k] = v: an existing property keeps its place, a new one goes last.
SetProp(obj, k, v) ==
    IF HasKey(obj, k)
    THEN [i \in 1..Len(obj) |-> IF obj[i][1] = k THEN <<k, v>> ELSE obj[i]]
    ELSE Append(obj, <<k, v>>)

(***************************************************************************)
(* JSON.stringify and JSON.parse on arrays of flat objects                 *)
(***************************************************************************)
\* JSON.stringify of one property value: NaN is written as null.
StringifyValue(v) ==
    CASE v[1] = "null" -> <<"literal", "null">>
      [] v[1] = "boolean" -> <<"literal", v[2]>>
      [] v[1] = "number" -> IF v[2] = "NaN" THEN <<"literal", "null">>
                                             ELSE <<"number", v[2]>>
      [] v[1] = "string" -> <<"string", v[2]>>

\* JSON.stringify of one object: properties holding undefined are left out.
StringifyObject(obj) ==
    LET keep == SelectSeq(obj, LAMBDA p : p[2][1] # "undefined")
    IN  [i \in 1..Len(keep) |-> <<keep[i][1], StringifyValue(keep[i][2])>>]

\* JSON.stringify(jsonObjects), as a sequence of objects of tokens.
Stringify(list) == [i \in 1..Len(list) |-> StringifyObject(list[i].props)]

ParseValue(tok) ==
    CASE tok[1] = "literal" /\ tok[2] = "null" -> Null
      [] tok[1] = "literal" -> <<"boolean", tok[2]>>
      [] tok[1] = "number" -> <<"number", tok[2]>>
      [] tok[1] = "string" -> <<"string", tok[2]>>

ParseObject(members) ==
    [i \in 1..Len(members) |-> <<members[i][1], ParseValue(members[i][2])>>]

\* JSON.parse of a well-formed document.  Every element is a new object; id
\* tells the objects of one pass apart (the closures hold references).
Parse(doc) == [i \in 1..Len(doc) |-> [id |-> i, props |-> ParseObject(doc[i])]]

\* The text of a document, as JSON.stringify writes it.
TokenText(tok) == IF tok[1] = "string" THEN "\"" \o tok[2] \o "\"" ELSE tok[2]

RECURSIVE MembersText(_)
MembersText(members) ==
    IF members = <<>> THEN ""
    ELSE LET m == members[1]
             head == "\"" \o m[1] \o "\":" \o TokenText(m[2])
         IN  IF Len(members) = 1 THEN head
             ELSE head \o "," \o MembersText(Tail(members))

RECURSIVE ObjectsText(_)
ObjectsText(doc) ==
    IF doc = <<>> THEN ""
    ELSE LET head == "{" \o MembersText(doc[1]) \o "}"
         IN  IF Len(doc) = 1 THEN head
             ELSE head \o "," \o ObjectsText(Tail(doc))

JsonText(doc) == "[" \o ObjectsText(doc) \o "]"

(***************************************************************************)
(* Strings as character sequences: String.split and parseInt               *)
(***************************************************************************)
RECURSIVE Join(_)
Join(chars) == IF chars = <<>> THEN "" ELSE chars[1] \o Join(Tail(chars))

\* chars.split(sep): the pieces between separators; "" splits into one
\* empty piece.
RECURSIVE Split(_, _)
Split(chars, sep) ==
    IF \A i \in 1..Len(chars) : chars[i] # sep THEN <<chars>>
    ELSE LET at == CHOOSE i \in 1..Len(chars) :
                       chars[i] = sep /\ \A j \in 1..(i - 1) : chars[j] # sep
         IN  <<SubSeq(chars, 1, at - 1)>>
                 \o Split(SubSeq(chars, at + 1, Len(chars)), sep)

Digits == {"0", "1", "2", "3", "4", "5", "6", "7", "8", "9"}

DigitValue(c) ==
    CASE c = "0" -> 0 [] c = "1" -> 1 [] c = "2" -> 2 [] c = "3" -> 3
      [] c = "4" -> 4 [] c = "5" -> 5 [] c = "6" -> 6 [] c = "7" -> 7
      [] c = "8" -> 8 [] c = "9" -> 9

\* The longest prefix of digits.
RECURSIVE LeadingDigits(_)
LeadingDigits(chars) ==
    IF chars = <<>> \/ chars[1] \notin Digits THEN <<>>
    ELSE <<chars[1]>> \o LeadingDigits(Tail(chars))

RECURSIVE Decimal(_)
Decimal(ds) ==
    IF ds = <<>> THEN 0
    ELSE Decimal(SubSeq(ds, 1, Len(ds) - 1)) * 10 + DigitValue(ds[Len(ds)])

\* Mutant: a text without digits is read as 0.
ParseInt_ZeroOnFailure(chars) ==
    LET signed == chars # <<>> /\ chars[1] \in {"-", "+"}
        body == IF signed THEN Tail(chars) ELSE chars
        ds == LeadingDigits(body)
    IN  IF signed /\ chars[1] = "-" THEN JsNumber(0 - Decimal(ds))
        ELSE JsNumber(Decimal(ds))

\* parseInt(text): an optional sign and the leading digits; NaN without a
\* digit.
ParseInt(chars) ==
    LET signed == chars # <<>> /\ chars[1] \in {"-", "+"}
        body == IF signed THEN Tail(chars) ELSE chars
        ds == LeadingDigits(body)
    IN  IF ds = <<>> THEN NaN
        ELSE IF signed /\ chars[1] = "-" THEN JsNumber(0 - Decimal(ds))
        ELSE JsNumber(Decimal(ds))

(***************************************************************************)
(* The schema: JsonInput and JsonInputType                                 *)
(***************************************************************************)
Text == 0
Number == 1
Dropdown == 2
Checkbox == 3
Checkboxes == 4
RadioGroup == 5

NoOptions == [present |-> FALSE, text |-> <<>>]
Options(chars) == [present |-> TRUE, text |-> chars]

JsonInput(name, label, type, options) ==
    [propertyName |-> name, label |-> label, type |-> type, options |-> options]

\* props.inputs is null, or an array of JsonInput.
NullInputs == [present |-> FALSE, fields |-> <<>>]
Inputs(fields) == [present |-> TRUE, fields |-> fields]

\* Mutant: the two pieces of an entry are taken in the wrong order.
getDropdownOptions_Swapped(input) ==
    IF ~input.options.present THEN [defined |-> FALSE, items |-> <<>>]
    ELSE LET options == Split(input.options.text, "|")
         IN  [defined |-> TRUE,
              items |-> [i \in 1..Len(options) |->
                  LET optionSplit == Split(options[i], ";")
                  IN  [value |-> IF Len(optionSplit) > 1
                                 THEN Join(optionSplit[2]) ELSE "",
                       hasLabel |-> TRUE,
                       primaryLabel |-> Join(optionSplit[1])]]]

\* getDropdownOptions: one MenuItem per entry of options.split('|'), its
\* value and label the first two pieces of entry.split(';'); undefined when
\* the input has no options.
getDropdownOptions(input) ==
    IF ~input.options.present THEN [defined |-> FALSE, items |-> <<>>]
    ELSE LET options == Split(input.options.text, "|")
         IN  [defined |-> TRUE,
              items |-> [i \in 1..Len(options) |->
                  LET optionSplit == Split(options[i], ";")
                  IN  [value |-> Join(optionSplit[1]),
                       hasLabel |-> Len(optionSplit) > 1,
                       primaryLabel |-> IF Len(optionSplit) > 1
                                        THEN Join(optionSplit[2]) ELSE ""]]]

\* Mutant: the Number case falls through to the string default.
getDefaultValue_NumberFallsThrough(input) ==
    CASE input.type = Checkbox -> JsFalse
      [] OTHER -> JsString("")

\* Mutant: the switch has lost its Checkbox and Number cases.
getDefaultValue_OnlyStrings(input) == JsString("")

\* getDefaultValue: the switch on input.type.
getDefaultValue(input) ==
    CASE input.type = Checkbox -> JsFalse
      [] input.type = Number -> JsNumber(0)
      [] OTHER -> JsString("")

\* Mutant: the default is shown but not written into the object.
MaterializeInput_DisplayOnly(input, jsonObject) == jsonObject

\* Mutant: the default is written whatever the object holds.
MaterializeInput_ResetsAll(input, jsonObject) ==
    SetProp(jsonObject, input.propertyName, getDefaultValue(input))

\* The first statement of getInput (lines 107-111): a falsy property is
\* overwritten by the default.
MaterializeInput(input, jsonObject) ==
    LET propertyValue == GetProp(jsonObject, input.propertyName)
    IN  IF ~Truthy(propertyValue)
        THEN SetProp(jsonObject, input.propertyName, getDefaultValue(input))
        ELSE jsonObject

\* Mutant: the visit stops after the first default it wrote.
RECURSIVE MaterializeObject_FirstOnly(_, _)
MaterializeObject_FirstOnly(fields, jsonObject) ==
    IF fields = <<>> THEN jsonObject
    ELSE IF MaterializeInput(fields[1], jsonObject) # jsonObject
    THEN MaterializeInput(fields[1], jsonObject)
    ELSE MaterializeObject_FirstOnly(Tail(fields), jsonObject)

\* props.inputs.map(i => getInput(i, o)): the object after the inputs were
\* visited in schema order.
RECURSIVE MaterializeObject(_, _)
MaterializeObject(fields, jsonObject) ==
    IF fields = <<>> THEN jsonObject
    ELSE MaterializeObject(Tail(fields), MaterializeInput(fields[1], jsonObject))

\* The effect of getObjectContainers on the array: nothing without inputs.
\* Mutant: an empty array is seeded with one empty object after the pass.
MaterializeDefaults_SeedsRecord(list, schema) ==
    IF list = <<>> THEN <<[id |-> 0, props |-> <<>>]>>
    ELSE IF ~schema.present THEN list
    ELSE [i \in 1..Len(list) |->
             [id |-> list[i].id,
              props |-> MaterializeObject(schema.fields, list[i].props)]]

MaterializeDefaults(list, schema) ==
    IF ~schema.present THEN list
    ELSE [i \in 1..Len(list) |->
             [id |-> list[i].id,
              props |-> MaterializeObject(schema.fields, list[i].props)]]

\* Mutant: an empty inputs array is treated like null.
ObjectContainers_SkipsEmpty(list, schema) ==
    IF ~schema.present \/ schema.fields = <<>> THEN <<>>
    ELSE [i \in 1..Len(list) |->
             [index |-> i - 1, id |-> list[i].id,
              widgets |-> Len(schema.fields)]]

\* The containers getObjectContainers returns: none without inputs; else one
\* per object, with the header's delete button bound to the index and the
\* input widgets bound to the object.
ObjectContainers(list, schema) ==
    IF ~schema.present THEN <<>>
    ELSE [i \in 1..Len(list) |->
             [index |-> i - 1, id |-> list[i].id,
              widgets |-> Len(schema.fields)]]

\* jsonObjects.splice(index, 1), index >= 0.
Splice(list, index) ==
    IF index >= Len(list) THEN list
    ELSE [j \in 1..(Len(list) - 1) |->
             IF j <= index THEN list[j] ELSE list[j + 1]]

\* jsonObject[input.propertyName] = value, on the object the closure holds;
\* an object no longer in the array changes nothing in it.
AssignIn(list, id, name, v) ==
    [i \in 1..Len(list) |->
        IF list[i].id = id /\ id # 0
        THEN [id |-> id, props |-> SetProp(list[i].props, name, v)]
        ELSE list[i]]

(***************************************************************************)
(* What the host and the user can supply                                   *)
(***************************************************************************)
fActive == JsonInput("active", "Active", Checkbox, NoOptions)
fA == JsonInput("a", "A", Text, NoOptions)
fN == JsonInput("n", "N", Number, NoOptions)
fD == JsonInput("d", "D", Dropdown,
                Options(<<"a", ";", "A", "l", "p", "h", "a", "|",
                          "b", ";", "B", "e", "t", "a">>))
fD0 == JsonInput("d", "D", Dropdown, NoOptions)
fK == JsonInput("k", "K", Checkboxes, NoOptions)
fR == JsonInput("r", "R", RadioGroup, NoOptions)

\* Field names are unique within a schema.
Schemas ==
    {NullInputs, Inputs(<<>>), Inputs(<<fActive>>), Inputs(<<fN>>),
     Inputs(<<fD>>), Inputs(<<fD0>>), Inputs(<<fA>>), Inputs(<<fK, fR>>)}

\* props.value: undefined, "", a text JSON.parse rejects, or a document.
NoValue == [kind |-> "undefined", doc |-> <<>>]
EmptyText == [kind |-> "empty", doc |-> <<>>]
Malformed == [kind |-> "malformed", doc |-> <<>>]
Json(doc) == [kind |-> "json", doc |-> doc]

\* Documents the host can hold when the component is first rendered.
EmptyDocs == {Json(<<>>), Json(<< <<>> >>)}

FieldDocs ==
    {Json(<< << <<"a", <<"string", "x">> >> >>, << <<"a", <<"string", "y">> >> >> >>),
     Json(<< << <<"active", <<"literal", "null">> >>, <<"n", <<"number", "7">> >> >> >>)}

\* The documents with stored fields are tried with the schemas that have no
\* field and with those that name one of the stored fields.
StoredValues(schema) ==
    {NoValue, EmptyText, Malformed} \cup EmptyDocs
        \cup {d \in FieldDocs :
                  \/ schema.fields = <<>>
                  \/ \E f \in 1..Len(schema.fields) :
                         \E i \in 1..Len(d.doc) :
                             \E j \in 1..Len(d.doc[i]) :
                                 d.doc[i][j][1] = schema.fields[f].propertyName}

\* Texts the user can leave in a number input, and in a text input.
NumberTexts == {<<>>, <<"7">>, <<"7", "x">>, <<"x", "7">>}
TextTexts == {"", "x"}

\* The values the widget of an input passes to updateJsonObject.
WidgetValues(input) ==
    CASE input.type = Checkbox -> {JsTrue, JsFalse}
      [] input.type = Dropdown ->
            {Undefined} \cup
            {JsString(getDropdownOptions(input).items[i].value) :
                 i \in 1..Len(getDropdownOptions(input).items)}
      [] input.type = Number -> {ParseInt(t) : t \in NumberTexts}
      [] OTHER -> {JsString(t) : t \in TextTexts}

(***************************************************************************)
(* The component                                                           *)
(***************************************************************************)
NoEmit == [present |-> FALSE, doc |-> <<>>]

\* lastOp: the step taken, and for a render pass the statements it reached.
NoOp == [op |-> "none", ran |-> {}]

\* Mutant: onChange is called twice.
save_Twice(list) ==
    IF hasOnChange
    THEN emits' = 2 /\ emitted' = [present |-> TRUE, doc |-> Stringify(list)]
    ELSE emits' = 0 /\ UNCHANGED emitted

\* save (lines 43-47): one onChange call with the stringified array, when
\* the host gave an onChange.
save(list) ==
    IF hasOnChange
    THEN emits' = 1 /\ emitted' = [present |-> TRUE, doc |-> Stringify(list)]
    ELSE emits' = 0 /\ UNCHANGED emitted

\* Mutant: unshift instead of push.
insertObject_Unshift(list) == <<[id |-> 0, props |-> <<>>]>> \o list

\* insertObject (lines 60-63): jsonObjects.push({}).
insertObject(list) == Append(list, [id |-> 0, props |-> <<>>])

\* Mutant: splice(index) without the count removes the rest of the array.
deleteObject_NoCount(list, index) == SubSeq(list, 1, index)

\* deleteObject (lines 68-71): jsonObjects.splice(index, 1).
deleteObject(list, index) == Splice(list, index)

\* Mutant: the value is assigned to every object of the array.
updateJsonObject_AllObjects(list, v, input, id) ==
    [i \in 1..Len(list) |->
        [id |-> list[i].id, props |-> SetProp(list[i].props, input.propertyName, v)]]

\* updateJsonObject (lines 52-55): jsonObject[input.propertyName] = value.
updateJsonObject(list, v, input, id) == AssignIn(list, id, input.propertyName, v)

\* Line 41: props.value ? JSON.parse(props.value) : [].
ValueTruthy(v) == v.kind \in {"malformed", "json"}

\* Mutant: the parse error is caught and the text read as an empty array.
ParseThrows_Caught(v) == FALSE

\* JSON.parse throws on a text that is no JSON.
ParseThrows(v) == v.kind = "malformed"

\* Mutant: once the editor is shown, the array of the earlier call is kept.
Load_Cached(v) ==
    IF phase = "rendered" THEN jsonObjects
    ELSE IF ValueTruthy(v) THEN Parse(v.doc) ELSE <<>>

\* Line 41: a fresh array, parsed from the text or empty.
Load(v) == IF ValueTruthy(v) THEN Parse(v.doc) ELSE <<>>

\* Mutant: the error message is not looked at.
ErrorShortCircuit_Ignored(err) == FALSE

\* Lines 192-202: the component returns the error wrapper.
ErrorShortCircuit(err) == err

\* One call of JsonFormComponent with props.value = v, props.errorMessage
\* truthy iff err.
RenderPass(v, err) ==
    /\ value' = v
    /\ errorMessage' = err
    /\ UNCHANGED <<inputs, hasOnChange>>
    /\ IF ValueTruthy(v) /\ ParseThrows(v)
       THEN /\ phase' = "failed"
            /\ jsonObjects' = <<>>
            /\ containers' = <<>>
            /\ insertBound' = FALSE
            /\ emits' = 0
            /\ UNCHANGED emitted
            /\ lastOp' = [NoOp EXCEPT !.op = "render", !.ran = {"parse"}]
       ELSE IF ErrorShortCircuit(err)
       THEN /\ phase' = "error"
            /\ jsonObjects' = Load(v)
            /\ containers' = <<>>
            /\ insertBound' = FALSE
            /\ emits' = 0
            /\ UNCHANGED emitted
            /\ lastOp' = [NoOp EXCEPT !.op = "render",
                             !.ran = IF ValueTruthy(v) THEN {"parse"} ELSE {}]
       ELSE /\ phase' = "rendered"
            /\ jsonObjects' = MaterializeDefaults(Load(v), inputs)
            /\ containers' = ObjectContainers(Load(v), inputs)
            /\ insertBound' = TRUE
            /\ save(jsonObjects')
            /\ lastOp' = [NoOp EXCEPT !.op = "render",
                             !.ran = (IF ValueTruthy(v) THEN {"parse"} ELSE {})
                                         \cup {"containers", "save"}]

Init ==
    /\ inputs \in Schemas
    /\ value \in StoredValues(inputs)
    /\ errorMessage \in BOOLEAN
    /\ hasOnChange \in BOOLEAN
    /\ jsonObjects = <<>>
    /\ phase = "unmounted"
    /\ containers = <<>>
    /\ insertBound = FALSE
    /\ emits = 0
    /\ emitted = NoEmit
    /\ lastOp = NoOp

\* The host renders the component with the value it holds.
Render == RenderPass(value, errorMessage)

\* The host stores the text of the last onChange call and renders with it.
StoreAndRender ==
    /\ emitted.present
    /\ RenderPass(Json(emitted.doc), errorMessage)

\* The host raises or clears its error message and renders.
ErrorChange == RenderPass(value, ~errorMessage)

\* The user presses New.
InsertObject ==
    /\ insertBound
    /\ Len(jsonObjects) < MaxRecords
    /\ jsonObjects' = insertObject(jsonObjects)
    /\ save(jsonObjects')
    /\ lastOp' = [NoOp EXCEPT !.op = "insert"]
    /\ UNCHANGED <<value, inputs, errorMessage, hasOnChange, phase, containers,
                   insertBound>>

\* The user presses the delete button of container c.
DeleteAt(c) ==
    /\ jsonObjects' = deleteObject(jsonObjects, containers[c].index)
    /\ save(jsonObjects')
    /\ lastOp' = [NoOp EXCEPT !.op = "delete"]
    /\ UNCHANGED <<value, inputs, errorMessage, hasOnChange, phase, containers,
                   insertBound>>

DeleteObject == \E c \in 1..Len(containers) : DeleteAt(c)

\* The user edits widget f of container c; the widget passes v on.
UpdateAt(c, f, v) ==
    /\ jsonObjects' = updateJsonObject(jsonObjects, v, inputs.fields[f],
                                       containers[c].id)
    /\ save(jsonObjects')
    /\ lastOp' = [NoOp EXCEPT !.op = "update"]
    /\ UNCHANGED <<value, inputs, errorMessage, hasOnChange, phase, containers,
                   insertBound>>

UpdateJsonObject ==
    \E c \in 1..Len(containers) :
        \E f \in 1..containers[c].widgets :
            \E v \in WidgetValues(inputs.fields[f]) : UpdateAt(c, f, v)

Next ==
    \/ Render
    \/ StoreAndRender
    \/ ErrorChange
    \/ InsertObject
    \/ DeleteObject
    \/ UpdateJsonObject

Spec == Init /\ [][Next]_vars

(***************************************************************************)
(* Vocabulary of the properties                                            *)
(***************************************************************************)
\* The step taken is a call of the component.
RenderStep == lastOp'.op = "render"

\* The last step was a call of the component that returned the editor, and
\* no handler ran since.
JustRendered == lastOp.op = "render" /\ phase = "rendered"

\* The default of a field kind, as the specification tabulates it.
TableDefault(type) ==
    IF type = Checkbox THEN JsFalse
    ELSE IF type = Number THEN JsNumber(0)
    ELSE JsString("")

SchemaNames(schema) == {schema.fields[f].propertyName : f \in 1..Len(schema.fields)}

FieldNamed(schema, k) ==
    schema.fields[CHOOSE f \in 1..Len(schema.fields) : schema.fields[f].propertyName = k]

\* A loaded object with every absent or falsy schema field replaced by the
\* default of its kind: stored properties keep their place, new ones follow
\* in schema order.
WithDefaults(props, schema) ==
    LET stored == [i \in 1..Len(props) |->
                      IF props[i][1] \in SchemaNames(schema) /\ ~Truthy(props[i][2])
                      THEN <<props[i][1], TableDefault(FieldNamed(schema, props[i][1]).type)>>
                      ELSE props[i]]
        missing == SelectSeq(schema.fields, LAMBDA fd : ~HasKey(props, fd.propertyName))
    IN  stored \o [j \in 1..Len(missing) |->
                      <<missing[j].propertyName, TableDefault(missing[j].type)>>]

\* Two lists are equal field for field: as long as each other, and every
\* property read gives the same value in both.
KeysOf(props) == {props[i][1] : i \in 1..Len(props)}

SameFields(l1, l2) ==
    /\ Len(l1) = Len(l2)
    /\ \A i \in 1..Len(l1) :
           \A k \in KeysOf(l1[i].props) \cup KeysOf(l2[i].props) :
               GetProp(l1[i].props, k) = GetProp(l2[i].props, k)

PropsOf(list) == [i \in 1..Len(list) |-> list[i].props]

(***************************************************************************)
(* C1: a render pass with errorMessage set never calls onChange, leaves    *)
(* the records exactly as loaded, returns neither containers nor the New   *)
(* button, and so leaves the persisted value as the host held it.          *)
(***************************************************************************)
C1_ErrorPassIsInert ==
    [][(RenderStep /\ errorMessage') =>
          /\ emits' = 0
          /\ emitted' = emitted
          /\ containers' = <<>>
          /\ ~insertBound'
          /\ phase' \in {"error", "failed"}
          /\ phase' = "error" => PropsOf(jsonObjects') = PropsOf(Load(value'))
          /\ value' \in {value} \cup
                 (IF emitted.present THEN {Json(emitted.doc)} ELSE {})]_vars

\* An error raised after an edit was emitted, on records the schema would
\* give defaults to.
C1_Witness ==
    /\ phase = "error"
    /\ lastOp.op = "render"
    /\ emitted.present
    /\ hasOnChange
    /\ inputs.present /\ inputs.fields # <<>>
    /\ Len(jsonObjects) > 0
    /\ \E i \in 1..Len(jsonObjects) : jsonObjects[i].props = <<>>

(***************************************************************************)
(* C2 (as claimed): a render pass with errorMessage set runs no step of    *)
(* the edit cycle: it neither parses the persisted value, nor builds the   *)
(* containers, nor saves.                                                  *)
(***************************************************************************)
C2_ErrorPassRunsNoStep ==
    [][(RenderStep /\ errorMessage') => lastOp'.ran = {}]_vars

(***************************************************************************)
(* C3 (as claimed): every list the component reaches survives              *)
(* load(serialize(list)) field for field.                                  *)
(***************************************************************************)
C3_RoundTrip ==
    phase = "rendered" => SameFields(Load(Json(Stringify(jsonObjects))), jsonObjects)

C5_OneEmitPerStep ==
    [][(hasOnChange /\ lastOp'.op \in {"render", "insert", "delete", "update"}
            /\ phase' # "failed") => emits' = 1]_vars

(***************************************************************************)
(* C5 (amended): when the host supplies onChange, every insert, delete and *)
(* field edit and every render pass that returns the editor calls it       *)
(* exactly once, with the serialized list; a render pass with errorMessage *)
(* set, or one that fails on the persisted value, does not call it.        *)
(* Without onChange nothing is called.                                     *)
(***************************************************************************)
C5_OneEmitPerCompletedStep ==
    [][/\ (hasOnChange /\ lastOp'.op \in {"insert", "delete", "update"}) =>
              emits' = 1 /\ emitted' = [present |-> TRUE, doc |-> Stringify(jsonObjects')]
       /\ (hasOnChange /\ RenderStep /\ phase' = "rendered") =>
              emits' = 1 /\ emitted' = [present |-> TRUE, doc |-> Stringify(jsonObjects')]
       /\ (RenderStep /\ phase' # "rendered") => emits' = 0 /\ emitted' = emitted
       /\ ~hasOnChange => emits' = 0 /\ emitted' = emitted
       /\ RenderStep => (phase' = "rendered" <=> ~errorMessage' /\ ~ParseThrows(value'))]_vars

\* A field edit that was emitted once.
C5_Witness ==
    /\ hasOnChange
    /\ lastOp.op = "update"
    /\ emits = 1
    /\ emitted = [present |-> TRUE, doc |-> Stringify(jsonObjects)]
    /\ value.kind = "json" /\ value.doc # Stringify(jsonObjects)

(***************************************************************************)
(* C6: a render pass with no error and no edit emits the serialization of  *)
(* the loaded list with every absent or falsy schema field replaced by the *)
(* default of its kind and everything else as loaded; schema               *)
(* [active: Checkbox] over '[{}]' emits '[{"active":false}]'.              *)
(***************************************************************************)
C6_RenderEmitsDefaults ==
    (JustRendered /\ hasOnChange) =>
        /\ emits = 1
        /\ emitted.present
        /\ Len(emitted.doc) = Len(Load(value))
        /\ \A i \in 1..Len(emitted.doc) :
               emitted.doc[i] = StringifyObject(WithDefaults(Load(value)[i].props, inputs))
        /\ (inputs = Inputs(<<fActive>>) /\ value = Json(<< <<>> >>)) =>
               JsonText(emitted.doc) = "[{\"active\":false}]"

C6_Witness ==
    /\ JustRendered
    /\ hasOnChange
    /\ inputs = Inputs(<<fActive>>)
    /\ value = Json(<< <<>> >>)
    /\ JsonText(emitted.doc) = "[{\"active\":false}]"

(***************************************************************************)
(* C7: deleting at position i of a list of N records, 0 <= i < N, leaves   *)
(* N-1 records: those before i where they were, those after i one place    *)
(* down; the result is emitted.  Deleting position 0 of                    *)
(* '[{"a":"x"},{"a":"y"}]' emits '[{"a":"y"}]'.                            *)
(***************************************************************************)
C7_DeleteShifts ==
    [][\A c \in 1..Len(containers) :
          LET i == containers[c].index
              N == Len(jsonObjects)
          IN  (DeleteAt(c) /\ i < N) =>
                  /\ Len(jsonObjects') = N - 1
                  /\ \A j \in 1..i : jsonObjects'[j] = jsonObjects[j]
                  /\ \A j \in (i + 2)..N : jsonObjects'[j - 1] = jsonObjects[j]
                  /\ hasOnChange =>
                         /\ emits' = 1
                         /\ emitted'.doc = Stringify(jsonObjects')
                         /\ (JsonText(Stringify(jsonObjects)) = "[{\"a\":\"x\"},{\"a\":\"y\"}]"
                                 /\ i = 0) =>
                                JsonText(emitted'.doc) = "[{\"a\":\"y\"}]"]_vars

\* The first of the two stored records was deleted.
C7_Witness ==
    /\ lastOp.op = "delete"
    /\ hasOnChange
    /\ value = Json(<< << <<"a", <<"string", "x">> >> >>, << <<"a", <<"string", "y">> >> >> >>)
    /\ JsonText(emitted.doc) = "[{\"a\":\"y\"}]"
    /\ Len(jsonObjects) = 1

(***************************************************************************)
(* C8: inserting into a list of N records gives N+1 records, the first N   *)
(* unchanged and the last one empty; the text emitted by the insert shows  *)
(* the new record as {} ('[]' becomes '[{}]'), and the schema defaults     *)
(* are in it once the next render pass ran over that text.                 *)
(***************************************************************************)
C8_InsertAppendsEmpty ==
    [][/\ InsertObject =>
              LET N == Len(jsonObjects)
              IN  /\ Len(jsonObjects') = N + 1
                  /\ SubSeq(jsonObjects', 1, N) = jsonObjects
                  /\ jsonObjects'[N + 1].props = <<>>
                  /\ hasOnChange =>
                         /\ emits' = 1
                         /\ Len(emitted'.doc) = N + 1
                         /\ emitted'.doc[N + 1] = <<>>
                         /\ SubSeq(emitted'.doc, 1, N) = Stringify(jsonObjects)
                         /\ N = 0 => JsonText(emitted'.doc) = "[{}]"
       /\ (lastOp.op = "insert" /\ RenderStep /\ phase' = "rendered"
               /\ value' = Json(emitted.doc) /\ emitted.present) =>
              LET last == jsonObjects'[Len(jsonObjects')].props
              IN  /\ Len(jsonObjects') = Len(jsonObjects)
                  /\ \A f \in 1..Len(inputs.fields) :
                         GetProp(last, inputs.fields[f].propertyName)
                             = TableDefault(inputs.fields[f].type)]_vars

\* A record was appended behind a stored one, under a schema with fields.
C8_Witness ==
    /\ lastOp.op = "insert"
    /\ hasOnChange
    /\ inputs.present /\ inputs.fields # <<>>
    /\ Len(jsonObjects) = 2
    /\ jsonObjects[1].props # <<>>
    /\ jsonObjects[2].props = <<>>
    /\ emitted.doc[2] = <<>>

C10_MaterializeIdempotent ==
    \A schema \in Schemas :
        MaterializeDefaults(MaterializeDefaults(jsonObjects, schema), schema)
            = MaterializeDefaults(jsonObjects, schema)

\* A list that materialization changes, in two fields of one record.
C10_Witness ==
    /\ inputs = Inputs(<<fK, fR>>)
    /\ \E i \in 1..Len(jsonObjects) : jsonObjects[i].props = <<>>
    /\ MaterializeDefaults(jsonObjects, inputs) # jsonObjects

(***************************************************************************)
(* C11: a render pass over a persisted value that does not parse fails as  *)
(* a whole: the error leaves the component, no list and no container is    *)
(* produced and onChange is not called.                                    *)
(***************************************************************************)
C11_MalformedValueFailsPass ==
    (lastOp.op = "render" /\ value.kind = "malformed") =>
        /\ phase = "failed"
        /\ jsonObjects = <<>>
        /\ containers = <<>>
        /\ ~insertBound
        /\ emits = 0
        /\ ~emitted.present

\* A failed pass where an editor would otherwise have been returned.
C11_Witness ==
    /\ phase = "failed"
    /\ value = Malformed
    /\ ~errorMessage
    /\ hasOnChange
    /\ inputs.present /\ inputs.fields # <<>>

(***************************************************************************)
(* C12 vocabulary: the entries of an options text, read independently of   *)
(* split: entry e runs between the (e-1)th and the eth '|'.                *)
(***************************************************************************)
BarsAt(chars) == {i \in 1..Len(chars) : chars[i] = "|"}

EntryCount(chars) == Cardinality(BarsAt(chars)) + 1

\* Rebuilding the text from (value, label) pairs gives back the text.
RECURSIVE Encode(_)
Encode(items) ==
    IF items = <<>> THEN ""
    ELSE LET head == items[1].value \o
                         (IF items[1].hasLabel THEN ";" \o items[1].primaryLabel ELSE "")
         IN  IF Len(items) = 1 THEN head ELSE head \o "|" \o Encode(Tail(items))

AlphaBeta == <<"a", ";", "A", "l", "p", "h", "a", "|", "b", ";", "B", "e", "t", "a">>

OptionsOrderKept(input) ==
    LET got == getDropdownOptions(input)
    IN  /\ Len(got.items) = EntryCount(input.options.text)
        /\ Encode(got.items) = Join(input.options.text)
        /\ input.options.text = AlphaBeta =>
               /\ Len(got.items) = 2
               /\ got.items[1].value = "a" /\ got.items[1].primaryLabel = "Alpha"
               /\ got.items[2].value = "b" /\ got.items[2].primaryLabel = "Beta"

(***************************************************************************)
(* C12 (as claimed): for every dropdown the editor shows, the options text *)
(* is split on '|' into entries and each entry on ';' into (value, label), *)
(* in order; an absent text gives an empty sequence.                       *)
(***************************************************************************)
DropdownShown(f) ==
    phase = "rendered" /\ containers # <<>> /\ inputs.fields[f].type = Dropdown

C13_DefaultsTable ==
    \A f \in 1..Len(inputs.fields) :
        LET input == inputs.fields[f]
        IN  /\ input.type \in {Text, Number, Dropdown, Checkbox, Checkboxes, RadioGroup}
            /\ input.type = Checkbox => getDefaultValue(input) = JsFalse
            /\ input.type = Number => getDefaultValue(input) = JsNumber(0)
            /\ input.type \in {Text, Dropdown, Checkboxes, RadioGroup} =>
                   getDefaultValue(input) = JsString("")
            /\ JustRendered =>
                   \A i \in 1..Len(jsonObjects) :
                       ~HasKey(Load(value)[i].props, input.propertyName) =>
                           GetProp(jsonObjects[i].props, input.propertyName) =
                               (CASE input.type = Checkbox -> JsFalse
                                  [] input.type = Number -> JsNumber(0)
                                  [] OTHER -> JsString(""))

\* The Number default was written into a record that had no such field.
C13_Witness ==
    /\ JustRendered
    /\ inputs = Inputs(<<fN>>)
    /\ value = Json(<< <<>> >>)
    /\ jsonObjects[1].props = << <<"n", <<"number", "0">> >> >>

(***************************************************************************)
(* C14 (as claimed): whenever a delete control is used, also after other   *)
(* handlers ran in the same render cycle, its index is inside the list and *)
(* is the position of the record the control was rendered for.             *)
(***************************************************************************)
C14_DeleteIndexIsCurrent ==
    [][\A c \in 1..Len(containers) :
          DeleteAt(c) =>
              /\ containers[c].index < Len(jsonObjects)
              /\ jsonObjects[containers[c].index + 1].id = containers[c].id]_vars

(***************************************************************************)
(* C15: a field edit overwrites the named field of the object its widget   *)
(* was rendered for and nothing else: the records keep their number and    *)
(* order, every other record and every other field of the target are       *)
(* unchanged, and the emitted text is the serialization of that list.      *)
(***************************************************************************)
OtherProps(props, name) == SelectSeq(props, LAMBDA p : p[1] # name)

C15_UpdateFrame ==
    [][\A c \in 1..Len(containers) :
         \A f \in 1..containers[c].widgets :
           \A v \in WidgetValues(inputs.fields[f]) :
             UpdateAt(c, f, v) =>
               LET target == containers[c].id
                   name == inputs.fields[f].propertyName
               IN  /\ Len(jsonObjects') = Len(jsonObjects)
                   /\ \A i \in 1..Len(jsonObjects) :
                        /\ jsonObjects'[i].id = jsonObjects[i].id
                        /\ jsonObjects[i].id # target => jsonObjects'[i] = jsonObjects[i]
                        /\ jsonObjects[i].id = target =>
                             /\ HasKey(jsonObjects'[i].props, name)
                             /\ GetProp(jsonObjects'[i].props, name) = v
                             /\ OtherProps(jsonObjects'[i].props, name)
                                    = OtherProps(jsonObjects[i].props, name)
                   /\ hasOnChange =>
                        /\ emits' = 1
                        /\ Len(emitted'.doc) = Len(jsonObjects)
                        /\ \A i \in 1..Len(jsonObjects) :
                             /\ jsonObjects[i].id # target =>
                                    emitted'.doc[i] = StringifyObject(jsonObjects[i].props)
                             /\ jsonObjects[i].id = target =>
                                    emitted'.doc[i] = StringifyObject(
                                        SetProp(jsonObjects[i].props, name, v))]_vars

\* The Number field of a record was edited; its other field stayed.
C15_Witness ==
    /\ lastOp.op = "update"
    /\ hasOnChange
    /\ inputs = Inputs(<<fN>>)
    /\ Len(jsonObjects) = 1
    /\ jsonObjects[1].props = << <<"active", Null>>, <<"n", NaN>> >>
    /\ JsonText(emitted.doc) = "[{\"active\":null,\"n\":null}]"

(***************************************************************************)
(* C16: an edit of a Number field whose text has no leading digit is not   *)
(* rejected: parseInt gives NaN, NaN is stored in the field as it is, and  *)
(* the list is serialized and emitted as for any other edit.               *)
(***************************************************************************)
C16_NaNStoredAndEmitted ==
    [][\A c \in 1..Len(containers) :
         \A f \in 1..containers[c].widgets :
           inputs.fields[f].type = Number =>
             /\ \A t \in NumberTexts :
                    /\ (t = <<>> \/ t[1] \notin Digits) => ParseInt(t) = NaN
                    /\ ParseInt(t) \in WidgetValues(inputs.fields[f])
             /\ NaN \in WidgetValues(inputs.fields[f])
             /\ UpdateAt(c, f, NaN) =>
                  /\ \A i \in 1..Len(jsonObjects) :
                         jsonObjects[i].id = containers[c].id =>
                             GetProp(jsonObjects'[i].props, inputs.fields[f].propertyName) = NaN
                  /\ hasOnChange =>
                         emits' = 1 /\ emitted'.doc = Stringify(jsonObjects')]_vars

\* NaN sits in the list and the emitted text shows it as null.
C16_Witness ==
    /\ lastOp.op = "update"
    /\ hasOnChange
    /\ inputs = Inputs(<<fN>>)
    /\ value = Json(<< <<>> >>)
    /\ jsonObjects[1].props = << <<"n", NaN>> >>
    /\ JsonText(emitted.doc) = "[{\"n\":null}]"

(***************************************************************************)
(* C17: every call of the component that returns builds its list from the  *)
(* value the host supplies to that call and from nothing else: the list is *)
(* the parsed text (with the defaults of the pass, when the editor is      *)
(* returned), whatever edits, inserts, deletes or defaults an earlier      *)
(* call's list received; and a handler changes the live list only, never   *)
(* the text the host holds.                                                *)
(***************************************************************************)
Loaded(v) == IF v.kind = "json" THEN Parse(v.doc) ELSE <<>>

C17_ListRebuiltFromValue ==
    [][/\ (RenderStep /\ phase' = "error") => jsonObjects' = Loaded(value')
       /\ (RenderStep /\ phase' = "rendered") =>
              /\ jsonObjects' = MaterializeDefaults(Loaded(value'), inputs')
              /\ Len(jsonObjects') = Len(Loaded(value'))
       /\ ~RenderStep => value' = value]_vars

\* A record was rendered, received 7 in its Number field, and the host then
\* rendered again with the text it held: the edit is gone from the list.
C17_Witness ==
    /\ lastOp.op = "render"
    /\ phase = "error"
    /\ inputs = Inputs(<<fN>>)
    /\ value = Json(<< <<>> >>)
    /\ Len(jsonObjects) = 1
    /\ jsonObjects[1].props = <<>>
    /\ emitted.present
    /\ JsonText(emitted.doc) = "[{\"n\":7}]"

(***************************************************************************)
(* C18: when the host stores the text a render pass emitted and renders    *)
(* again without any handler in between, the pass emits the identical      *)
(* text, which is the value the host now holds: the loop is at rest.       *)
(***************************************************************************)
C18_LoopStabilises ==
    [][(JustRendered /\ hasOnChange /\ StoreAndRender) =>
           /\ phase' = "rendered"
           /\ emits' = 1
           /\ emitted' = emitted
           /\ value' = Json(emitted'.doc)
           /\ jsonObjects' = jsonObjects]_vars

\* The second pass of the loop: the stored text is the emitted one, and it
\* holds a default the first pass wrote.
C18_Witness ==
    /\ JustRendered
    /\ hasOnChange
    /\ inputs = Inputs(<<fActive>>)
    /\ emitted.present
    /\ value = Json(emitted.doc)
    /\ JsonText(emitted.doc) = "[{\"active\":false,\"n\":7}]"

(***************************************************************************)
(* C19: the defaults of a render pass keep the records, their number and   *)
(* their order, leave every field whose loaded value is truthy as it was,  *)
(* and neither add nor change a field the schema does not name.            *)
(***************************************************************************)
C19_MaterializeFrame ==
    JustRendered =>
        /\ Len(jsonObjects) = Len(Loaded(value))
        /\ \A i \in 1..Len(jsonObjects) :
             LET was == Loaded(value)[i].props
                 now == jsonObjects[i].props
             IN  /\ jsonObjects[i].id = Loaded(value)[i].id
                 /\ \A k \in KeysOf(was) :
                        Truthy(GetProp(was, k)) =>
                            HasKey(now, k) /\ GetProp(now, k) = GetProp(was, k)
                 /\ \A k \in (KeysOf(was) \cup KeysOf(now)) \ SchemaNames(inputs) :
                        /\ HasKey(was, k) /\ HasKey(now, k)
                        /\ GetProp(now, k) = GetProp(was, k)

\* The checkbox field received its default; the field outside the schema
\* kept its loaded value.
C19_Witness ==
    /\ JustRendered
    /\ inputs = Inputs(<<fActive>>)
    /\ value = Json(<< << <<"active", <<"literal", "null">> >>,
                          <<"n", <<"number", "7">> >> >> >>)
    /\ jsonObjects[1].props = << <<"active", JsFalse>>, <<"n", JsNumber(7)>> >>

====
